---- MODULE Spec2Model ----
(***************************************************************************)
(* asm80.py: a two pass assembler for the 8080 / 8085.                     *)
(*                                                                         *)
(* The program works on text: Pass 1 formats every source line into a      *)
(* fixed-width row of the provisional listing (.tmp), Pass 2 scrapes the   *)
(* rows again to resolve the "??" placeholders and writes the final        *)
(* listing (.lst), and the HEX generator scrapes the final listing by      *)
(* column.  The model keeps the text: source lines, listing rows and HEX   *)
(* records are strings, and the Python string operations the program uses  *)
(* are defined below with Python's semantics (0-based indices, clamped     *)
(* slices, find returning -1).                                             *)
(***************************************************************************)
EXTENDS Integers, Sequences, FiniteSets, TLC

(***************************************************************************)
(* Python string primitives                                                *)
(***************************************************************************)

\* s[i] for 0 <= i < len(s)
At(s, i) == SubSeq(s, i + 1, i + 1)

Max2(a, b) == IF a > b THEN a ELSE b
Min2(a, b) == IF a < b THEN a ELSE b

\* s[i:j] for i, j >= 0 (clamped to the string like Python's slices)
Slice(s, i, j) ==
    LET lo == Min2(i, Len(s))
        hi == Min2(j, Len(s))
    IN  IF hi <= lo THEN "" ELSE SubSeq(s, lo + 1, hi)

\* s[i:]
From(s, i) == Slice(s, i, Len(s))

\* s[-n:] for n > 0
Last(s, n) == From(s, Max2(0, Len(s) - n))

\* s[:-n] for n > 0
DropLast(s, n) == Slice(s, 0, Max2(0, Len(s) - n))

StartsWithAt(s, sub, i) == Slice(s, i, i + Len(sub)) = sub

RECURSIVE FindFrom(_, _, _)
FindFrom(s, sub, i) ==
    IF i + Len(sub) > Len(s) THEN -1
    ELSE IF StartsWithAt(s, sub, i) THEN i
    ELSE FindFrom(s, sub, i + 1)

\* s.find(sub)
Find(s, sub) == FindFrom(s, sub, 0)

\* sub in s
Contains(s, sub) == Find(s, sub) >= 0

Whitespace == {" ", "\t", "\n", "\r"}
Digits == {"0", "1", "2", "3", "4", "5", "6", "7", "8", "9"}
UpperLetters == "ABCDEFGHIJKLMNOPQRSTUVWXYZ"
LowerLetters == "abcdefghijklmnopqrstuvwxyz"

\* the index (1-based) of character c in the string abc, 0 when absent
RECURSIVE IndexIn(_, _, _)
IndexIn(abc, c, i) ==
    IF i > Len(abc) THEN 0
    ELSE IF At(abc, i - 1) = c THEN i
    ELSE IndexIn(abc, c, i + 1)

\* c.isdigit(), c.isalpha() for one ASCII character
IsDigit(c) == c \in Digits
IsAlpha(c) == IndexIn(UpperLetters, c, 1) > 0 \/ IndexIn(LowerLetters, c, 1) > 0

UpperChar(c) ==
    LET k == IndexIn(LowerLetters, c, 1)
    IN  IF k > 0 THEN At(UpperLetters, k - 1) ELSE c

\* s.upper()
RECURSIVE Upper(_)
Upper(s) == IF s = "" THEN "" ELSE UpperChar(Head(s)) \o Upper(Tail(s))

\* s.lstrip(), s.rstrip()
RECURSIVE LStrip(_)
LStrip(s) == IF s # "" /\ Head(s) \in Whitespace THEN LStrip(Tail(s)) ELSE s

RECURSIVE RStrip(_)
RStrip(s) ==
    IF s # "" /\ At(s, Len(s) - 1) \in Whitespace
    THEN RStrip(DropLast(s, 1)) ELSE s

\* c * n
RECURSIVE Rep(_, _)
Rep(c, n) == IF n <= 0 THEN "" ELSE c \o Rep(c, n - 1)

\* s.ljust(n), s.rjust(n), s.rjust(n, c)
LJust(s, n) == s \o Rep(" ", n - Len(s))
RJust(s, n) == Rep(" ", n - Len(s)) \o s

\* s.zfill(n): zeros go after a leading sign
ZFill(s, n) ==
    IF s # "" /\ Head(s) \in {"+", "-"}
    THEN Head(s) \o Rep("0", n - Len(s)) \o Tail(s)
    ELSE Rep("0", n - Len(s)) \o s

\* s.replace(c, '') for a one-character c
RECURSIVE Remove(_, _)
Remove(s, c) ==
    IF s = "" THEN ""
    ELSE IF Head(s) = c THEN Remove(Tail(s), c)
    ELSE Head(s) \o Remove(Tail(s), c)

\* the first whitespace-free word of a stripped, non-empty string
RECURSIVE Word(_)
Word(s) ==
    IF s = "" \/ Head(s) \in Whitespace THEN ""
    ELSE Head(s) \o Word(Tail(s))

\* s.split(): the words between runs of whitespace
RECURSIVE Split(_)
Split(s) ==
    LET t == LStrip(s)
        w == Word(t)
    IN  IF t = "" THEN << >> ELSE <<w>> \o Split(From(t, Len(w)))

\* s.split(sep, maxsplit) for a one-character sep; maxsplit < 0: no limit
RECURSIVE SplitOn(_, _, _)
SplitOn(s, sep, maxsplit) ==
    LET p == Find(s, sep)
    IN  IF p < 0 \/ maxsplit = 0 THEN <<s>>
        ELSE <<Slice(s, 0, p)>> \o SplitOn(From(s, p + 1), sep, maxsplit - 1)

\* ord(c) for a printable ASCII character (the backquote, 96, cannot be
\* written in a TLA+ string and is left out)
PrintableLow == " !\"#$%&'()*+,-./0123456789:;<=>?@ABCDEFGHIJKLMNOPQRSTUVWXYZ[\\]^_"
PrintableHigh == "abcdefghijklmnopqrstuvwxyz{|}~"
Ord(c) ==
    IF IndexIn(PrintableLow, c, 1) > 0 THEN IndexIn(PrintableLow, c, 1) + 31
    ELSE IndexIn(PrintableHigh, c, 1) + 96

HexDigitsUpper == "0123456789ABCDEF"
HexDigitsLower == "0123456789abcdef"

RECURSIVE FormatNat(_, _)
FormatNat(n, digits) ==
    IF n < 16 THEN At(digits, n)
    ELSE FormatNat(n \div 16, digits) \o At(digits, n % 16)

\* format(n, 'X') and format(n, 'x') for an int n
FormatX(n) == IF n < 0 THEN "-" \o FormatNat(-n, HexDigitsUpper)
                       ELSE FormatNat(n, HexDigitsUpper)
Formatx(n) == IF n < 0 THEN "-" \o FormatNat(-n, HexDigitsLower)
                       ELSE FormatNat(n, HexDigitsLower)

\* str(n) for n >= 0
RECURSIVE Str(_)
Str(n) == IF n < 10 THEN At(HexDigitsUpper, n)
          ELSE Str(n \div 10) \o At(HexDigitsUpper, n % 10)

\* the value of one digit character in a base, -1 when it is no digit of it
DigitVal(c, base) ==
    LET k == IndexIn(HexDigitsUpper, UpperChar(c), 1)
    IN  IF k > 0 /\ k - 1 < base THEN k - 1 ELSE -1

RECURSIVE DigitsVal(_, _, _)
DigitsVal(s, base, acc) ==
    IF s = "" THEN acc
    ELSE DigitsVal(Tail(s), base, acc * base + DigitVal(Head(s), base))

AllDigits(s, base) ==
    s # "" /\ \A i \in 0..(Len(s) - 1) : DigitVal(At(s, i), base) >= 0

BasePrefix(base) == CASE base = 16 -> "0X" [] base = 8 -> "0O"
                      [] base = 2 -> "0B" [] OTHER -> "??"

\* int(s, base), in the steps of the conversion: the digits, after the base
\* prefix, after the sign, after the surrounding whitespace.  [ok |-> FALSE]
\* is ValueError.  Digit separators "_" are not modelled: no input of the
\* model has one.
PyIntDigits(neg, d, base) ==
    IF AllDigits(d, base)
    THEN [ok |-> TRUE,
          val |-> IF neg THEN 0 - DigitsVal(d, base, 0) ELSE DigitsVal(d, base, 0)]
    ELSE [ok |-> FALSE, val |-> 0]

PyIntUnsigned(neg, u, base) ==
    PyIntDigits(neg,
                IF Upper(Slice(u, 0, 2)) = BasePrefix(base) THEN From(u, 2) ELSE u,
                base)

PyIntStripped(t, base) ==
    PyIntUnsigned(t # "" /\ Head(t) = "-",
                  IF t # "" /\ Head(t) \in {"+", "-"} THEN Tail(t) ELSE t,
                  base)

PyInt(s, base) == PyIntStripped(RStrip(LStrip(s)), base)

(***************************************************************************)
(* class Instruction808x                                                   *)
(***************************************************************************)

\* self.instr: 'Mnemonic':'Opcode*', the third character the operand type
instr ==
    "CMA" :> "2F-" @@ "CMC" :> "3F-" @@ "DAA" :> "27-" @@ "DI" :> "F3-" @@
    "EI" :> "FB-" @@ "HLT" :> "76-" @@ "NOP" :> "00-" @@ "PCHL" :> "E9-" @@
    "RAL" :> "17-" @@ "RAR" :> "1F-" @@ "RC" :> "D8-" @@ "RET" :> "C9-" @@
    "RIM" :> "20-" @@ "RLC" :> "07-" @@ "RM" :> "F8-" @@ "RNC" :> "D0-" @@
    "RNZ" :> "C0-" @@ "RP" :> "F0-" @@ "RPE" :> "E8-" @@ "RPO" :> "E0-" @@
    "RRC" :> "0F-" @@ "RZ" :> "C8-" @@ "SIM" :> "30-" @@ "SPHL" :> "F9-" @@
    "STC" :> "37-" @@ "XCHG" :> "EB-" @@ "XTHL" :> "E3-" @@
    "ARHL" :> "10-" @@ "DSUB" :> "08-" @@ "LHLX" :> "ED-" @@
    "RDEL" :> "18-" @@ "RSTV" :> "CB-" @@ "SHLX" :> "D9-" @@
    "ACI" :> "CEb" @@ "ADI" :> "C6b" @@ "ANI" :> "E6b" @@ "CPI" :> "FEb" @@
    "ORI" :> "F6b" @@ "SBI" :> "DEb" @@ "SUI" :> "D6b" @@ "XRI" :> "EEb" @@
    "IN" :> "DBb" @@ "OUT" :> "D3b" @@ "LDHI" :> "28b" @@ "LDSI" :> "38b" @@
    "ADC" :> "88r" @@ "ADD" :> "80r" @@ "ANA" :> "A0r" @@ "CMP" :> "B8r" @@
    "DCR" :> "05r" @@ "INR" :> "04r" @@ "ORA" :> "B0r" @@ "SBB" :> "98r" @@
    "SUB" :> "90r" @@ "XRA" :> "A8r" @@ "CALL" :> "CDa" @@ "CC" :> "DCa" @@
    "CM" :> "FCa" @@ "CNC" :> "D4a" @@ "CNZ" :> "C4a" @@ "CP" :> "F4a" @@
    "CPE" :> "ECa" @@ "CPO" :> "E4a" @@ "CZ" :> "CCa" @@ "JC" :> "DAa" @@
    "JM" :> "FAa" @@ "JMP" :> "C3a" @@ "JNC" :> "D2a" @@ "JNZ" :> "C2a" @@
    "JP" :> "F2a" @@ "JPE" :> "EAa" @@ "JPO" :> "E2a" @@ "JZ" :> "CAa" @@
    "LDA" :> "3Aa" @@ "LHLD" :> "2Aa" @@ "SHLD" :> "22a" @@ "STA" :> "32a" @@
    "JNUI" :> "DDa" @@ "JUI" :> "FDa" @@ "DAD" :> "09p" @@ "DCX" :> "0Bp" @@
    "INX" :> "03p" @@ "POP" :> "C1p" @@ "PUSH" :> "C5p" @@ "LDAX" :> "0Ad" @@
    "STAX" :> "02d" @@ "MOV" :> "40m" @@ "LXI" :> "01w" @@ "MVI" :> "06v" @@
    "RST" :> "C7i" @@ "DB" :> "00b" @@ "DW" :> "00a" @@ "DS" :> "00a" @@
    "ORG" :> "00a" @@ "EQU" :> "00e"

\* opCode(mnemonic): the 'Opcode*' of a mnemonic, or 'Error'
opCode(mnemonic) ==
    IF mnemonic \notin DOMAIN instr THEN "Error"
    ELSE IF Len(instr[mnemonic]) # 3 THEN "Error"
    ELSE instr[mnemonic]

(***************************************************************************)
(* class Parse: the operand parsers                                        *)
(***************************************************************************)

\* the shared tail of every number format of Op_byte and Op_addr: dec is
\* int(text, base) (ValueError is caught: 'Error'), the range is checked and
\* the value is formatted to `width` hex digits
RangeOrError(dec, limit, width) ==
    IF ~dec.ok THEN "Error"
    ELSE IF dec.val < 0 \/ dec.val > limit THEN "Error"
    ELSE ZFill(FormatX(dec.val), width)

\* the format chain Op_byte and Op_addr share: ASCII, hex, octal, binary,
\* decimal, in this order; up is operand.upper()
NumberFormatsUpper(operand, up, limit, width) ==
    IF Find(operand, "'") = 0 /\ Len(operand) > 1
    THEN ZFill(FormatX(Ord(At(operand, 1))), width)
    ELSE IF Find(up, "H") > 0 /\ IsDigit(At(operand, 0))
    THEN RangeOrError(PyInt(Slice(operand, 0, Find(up, "H")), 16), limit, width)
    ELSE IF Find(up, "Q") > 0 /\ IsDigit(At(operand, 0))
    THEN RangeOrError(PyInt(Slice(operand, 0, Find(up, "Q")), 8), limit, width)
    ELSE IF Find(up, "B") > 0 /\ IsDigit(At(operand, 0))
    THEN RangeOrError(PyInt(Slice(operand, 0, Find(up, "B")), 2), limit, width)
    ELSE RangeOrError(PyInt(operand, 10), limit, width)

NumberFormats(operand, limit, width) ==
    NumberFormatsUpper(operand, Upper(operand), limit, width)

\* Op_byte(operand): two hex digits, or 'Error'
Op_byte(operand) == NumberFormats(operand, 255, 2)

\* Op_addr(operand): four hex digits, 'Label' or 'Error'
Op_addr(operand) ==
    IF Len(operand) = 0 THEN "Error"
    ELSE IF IsAlpha(At(operand, 0)) THEN "Label"
    ELSE NumberFormats(operand, 65535, 4)

\* Op_reg(operand): SSS of a register, -1 for none
Op_reg(operand) ==
    CASE operand = "B" -> 0 [] operand = "C" -> 1 [] operand = "D" -> 2
      [] operand = "E" -> 3 [] operand = "H" -> 4 [] operand = "L" -> 5
      [] operand = "M" -> 6 [] operand = "A" -> 7 [] operand = "PSW" -> 0
      [] OTHER -> -1

\* Op_regpr(operand): RP of a register pair B, D, H, SP or PSW, -1 for none
Op_regpr(operand) ==
    CASE operand = "B" -> 0 [] operand = "D" -> 1 [] operand = "H" -> 2
      [] operand = "SP" -> 3 [] operand = "PSW" -> 3 [] OTHER -> -1

\* Op_regpr2(operand): RP of a register pair B or D, -1 for none
Op_regpr2(operand) ==
    CASE operand = "B" -> 0 [] operand = "D" -> 1 [] OTHER -> -1


(***************************************************************************)
(* class Parse: the object and Pass1                                       *)
(*                                                                         *)
(* The Parse object is a record of its attributes.  symbols is the list of *)
(* (label, value) tuples.  Pass 1 stores ints; Pass 2 can store the float  *)
(* of a true division or a stale string in a tuple, so a value is written  *)
(* with its Python type (IntV, FloatV, StrV).  exc is not an attribute: it *)
(* names the exception that left the method uncaught ("" for none), which  *)
(* ends the script.                                                        *)
(***************************************************************************)

\* Python values: an int, a float num/den (den > 0), a str, or no value
\* (a name that was never assigned)
IntV(n) == [kind |-> "int", num |-> n, den |-> 1, str |-> ""]
FloatV(n, d) == [kind |-> "float", num |-> n, den |-> d, str |-> ""]
StrV(t) == [kind |-> "str", num |-> 0, den |-> 1, str |-> t]
Unbound == [kind |-> "unbound", num |-> 0, den |-> 1, str |-> ""]

\* Parse.__init__
NewParse ==
    [err |-> "", ln |-> 0, pc |-> 0, b1 |-> "", b2 |-> "", b3 |-> "",
     long |-> "", label |-> "", mne |-> "", oper |-> "", bytes |-> 0,
     comment |-> "", errors |-> 0, symbols |-> << >>, exc |-> ""]

\* self.err = code; self.errors = self.errors + 1
SetError(p, code) == [p EXCEPT !.err = code, !.errors = @ + 1]

\* an exception nothing catches
Raise(p, e) == [p EXCEPT !.exc = e]

\* format(int(self.b1, 16) + n, 'X').zfill(2)
AddToOpcode(b1, n) == ZFill(FormatX(PyInt(b1, 16).val + n), 2)

\* DB: split the operands at ',' outside '...'; a quote is kept as '"'
RECURSIVE DbSplit(_, _, _, _)
DbSplit(rest, open_quote, temp, linesp) ==
    IF rest = "" THEN Append(linesp, temp)
    ELSE IF Head(rest) = "'"
    THEN DbSplit(Tail(rest), ~open_quote, temp \o "\"", linesp)
    ELSE IF Head(rest) = "," /\ ~open_quote
    THEN DbSplit(Tail(rest), open_quote, "", Append(linesp, temp))
    ELSE DbSplit(Tail(rest), open_quote, temp \o Head(rest), linesp)

\* DB: the bytes of the characters of one string operand
RECURSIVE DbString(_)
DbString(op) ==
    IF op = "" THEN ""
    ELSE IF Head(op) = "\"" THEN DbString(Tail(op))
    ELSE Op_byte("'" \o Head(op) \o "'") \o DbString(Tail(op))

\* DB: one operand that is no string; b is Op_byte(op)
DbNumber(p, b) ==
    IF b = "Error" THEN [p EXCEPT !.b1 = "??"] ELSE [p EXCEPT !.long = @ \o b]

\* DB: one operand, stripped
DbOperand(p, op) ==
    IF Find(op, "\"") = 0 THEN [p EXCEPT !.long = @ \o DbString(op)]
    ELSE DbNumber(p, Op_byte(op))

\* DB: inspect each operand, collecting the bytes in self.long
RECURSIVE DbOperands(_, _, _)
DbOperands(p, linesp, k) ==
    IF k > Len(linesp) THEN p
    ELSE DbOperands(DbOperand(p, LStrip(linesp[k])), linesp, k + 1)

\* op_type 'b', any mnemonic but DB; b is Op_byte(line)
Pass1_bByte(p, line, b) ==
    [p EXCEPT !.b2 = IF b = "Error" THEN "??" ELSE b, !.bytes = 2, !.oper = line]

\* op_type 'b': byte data operand
Pass1_b(p, line) ==
    IF p.mne = "DB"
    THEN [DbOperands(p, DbSplit(line, FALSE, "", << >>), 1)
             EXCEPT !.oper = line, !.bytes = 1]
    ELSE Pass1_bByte(p, line, Op_byte(line))

\* op_type 'r'; sss is Op_reg(line)
Pass1_rReg(p, line, sss) ==
    IF sss = -1 THEN [SetError(p, "*R*") EXCEPT !.oper = line, !.bytes = 1]
    ELSE IF p.mne = "DCR" \/ p.mne = "INR"
    THEN [p EXCEPT !.b1 = AddToOpcode(@, 8 * sss), !.oper = line, !.bytes = 1]
    ELSE [p EXCEPT !.b1 = AddToOpcode(@, sss), !.oper = line, !.bytes = 1]

\* op_type 'r': register operand
Pass1_r(p, line) == Pass1_rReg(p, line, Op_reg(line))

\* op_type 'a'; a is Op_addr(line) and val is int(a, 16), a ValueError for
\* 'Label'
\* a variant of Pass1_aAddr in which DS sets the program counter as ORG does
Pass1_aAddrDsSets(p, line, a, val) ==
    IF p.mne = "DW"
    THEN IF a = "Error"
         THEN [SetError(p, "*V*") EXCEPT !.b2 = "00",
                                         !.oper = Upper(line), !.bytes = 2]
         ELSE IF a = "Label"
         THEN [p EXCEPT !.b1 = "??", !.b2 = "??", !.oper = Upper(line), !.bytes = 2]
         ELSE [p EXCEPT !.b1 = Slice(a, 2, 4), !.b2 = Slice(a, 0, 2),
                        !.oper = Upper(line), !.bytes = 2]
    ELSE IF p.mne = "DS"
    THEN IF a = "Error"
         THEN [SetError(p, "*V*") EXCEPT !.bytes = 0, !.oper = line]
         ELSE IF ~val.ok THEN Raise([p EXCEPT !.b1 = ""], "ValueError")
         ELSE [p EXCEPT !.b1 = "", !.pc = val.val, !.bytes = 0, !.oper = line]
    ELSE IF p.mne = "ORG"
    THEN IF a = "Error"
         THEN [SetError(p, "*V*") EXCEPT !.bytes = 0, !.oper = line]
         ELSE IF ~val.ok THEN Raise([p EXCEPT !.b1 = ""], "ValueError")
         ELSE [p EXCEPT !.b1 = "", !.pc = val.val, !.bytes = 0, !.oper = line]
    ELSE IF a = "Error"
    THEN [SetError(p, "*V*") EXCEPT !.b2 = "00", !.b3 = "00",
                                    !.oper = Upper(line), !.bytes = 3]
    ELSE IF a = "Label"
    THEN [p EXCEPT !.b2 = "??", !.b3 = "??", !.oper = Upper(line), !.bytes = 3]
    ELSE [p EXCEPT !.b2 = Slice(a, 2, 4), !.b3 = Slice(a, 0, 2),
                   !.oper = Upper(line), !.bytes = 3]

Pass1_aAddr(p, line, a, val) ==
    IF p.mne = "DW"
    THEN IF a = "Error"
         THEN [SetError(p, "*V*") EXCEPT !.b2 = "00",
                                         !.oper = Upper(line), !.bytes = 2]
         ELSE IF a = "Label"
         THEN [p EXCEPT !.b1 = "??", !.b2 = "??", !.oper = Upper(line), !.bytes = 2]
         ELSE [p EXCEPT !.b1 = Slice(a, 2, 4), !.b2 = Slice(a, 0, 2),
                        !.oper = Upper(line), !.bytes = 2]
    ELSE IF p.mne = "DS"
    THEN IF a = "Error"
         THEN [SetError(p, "*V*") EXCEPT !.bytes = 0, !.oper = line]
         ELSE IF ~val.ok THEN Raise([p EXCEPT !.b1 = ""], "ValueError")
         ELSE [p EXCEPT !.b1 = "", !.pc = @ + val.val, !.bytes = 0, !.oper = line]
    ELSE IF p.mne = "ORG"
    THEN IF a = "Error"
         THEN [SetError(p, "*V*") EXCEPT !.bytes = 0, !.oper = line]
         ELSE IF ~val.ok THEN Raise([p EXCEPT !.b1 = ""], "ValueError")
         ELSE [p EXCEPT !.b1 = "", !.pc = val.val, !.bytes = 0, !.oper = line]
    ELSE IF a = "Error"
    THEN [SetError(p, "*V*") EXCEPT !.b2 = "00", !.b3 = "00",
                                    !.oper = Upper(line), !.bytes = 3]
    ELSE IF a = "Label"
    THEN [p EXCEPT !.b2 = "??", !.b3 = "??", !.oper = Upper(line), !.bytes = 3]
    ELSE [p EXCEPT !.b2 = Slice(a, 2, 4), !.b3 = Slice(a, 0, 2),
                   !.oper = Upper(line), !.bytes = 3]

Pass1_aValue(p, line, a) == Pass1_aAddr(p, line, a, PyInt(a, 16))

\* op_type 'a': address operand (DW, DS, ORG and the instructions)
Pass1_a(p, line) == Pass1_aValue(p, line, Op_addr(line))

\* op_type 'p' and 'd'; rp is the register pair
Pass1_pPair(p, line, rp) ==
    IF rp = -1 THEN [SetError(p, "*R*") EXCEPT !.oper = line, !.bytes = 1]
    ELSE [p EXCEPT !.b1 = AddToOpcode(@, 16 * rp), !.oper = line, !.bytes = 1]

\* op_type 'p': register pair operand
Pass1_p(p, line) == Pass1_pPair(p, line, Op_regpr(line))

\* op_type 'd': register pair B or D operand
Pass1_d(p, line) == Pass1_pPair(p, line, Op_regpr2(line))

\* op_type 'w': the data word; a is Op_addr of the second operand, 'Error'
\* when there is none
Pass1_wAddr(p, line, a) ==
    IF a = "Error"
    THEN [SetError(p, "*V*") EXCEPT !.b2 = "00", !.b3 = "00",
                                    !.oper = line, !.bytes = 3]
    ELSE IF a = "Label"
    THEN [p EXCEPT !.b2 = "??", !.b3 = "??", !.oper = line, !.bytes = 3]
    ELSE [p EXCEPT !.b2 = Slice(a, 2, 4), !.b3 = Slice(a, 0, 2),
                   !.oper = line, !.bytes = 3]

\* op_type 'w': the register pair
Pass1_wPair(p, rp) ==
    IF rp = -1 THEN [SetError(p, "*R*") EXCEPT !.b2 = "00", !.b3 = "00"]
    ELSE [p EXCEPT !.b1 = AddToOpcode(@, 16 * rp)]

Pass1_wSplit(p, line, line_rp_d) ==
    Pass1_wAddr(Pass1_wPair(p, Op_regpr(line_rp_d[1])), line,
                IF Len(line_rp_d) > 1 THEN Op_addr(LStrip(line_rp_d[2]))
                ELSE "Error")

\* op_type 'w': LXI register pair, data word operand
Pass1_w(p, line) == Pass1_wSplit(p, line, SplitOn(line, ",", -1))

\* a variant of Pass1_mRegs with the two register fields exchanged
Pass1_mRegsSwapped(p, line, ddd, sss) ==
    IF ddd = -1 \/ sss = -1 \/ (ddd = 6 /\ sss = 6)
    THEN [SetError(p, "*R*") EXCEPT !.oper = line, !.bytes = 1]
    ELSE [p EXCEPT !.b1 = AddToOpcode(@, 8 * sss + ddd), !.oper = line, !.bytes = 1]

Pass1_mRegs(p, line, ddd, sss) ==
    IF ddd = -1 \/ sss = -1 \/ (ddd = 6 /\ sss = 6)
    THEN [SetError(p, "*R*") EXCEPT !.oper = line, !.bytes = 1]
    ELSE [p EXCEPT !.b1 = AddToOpcode(@, 8 * ddd + sss), !.oper = line, !.bytes = 1]

Pass1_mSplit(p, line, line_rr) ==
    IF Len(line_rr) # 2
    THEN [SetError(p, "*R*") EXCEPT !.oper = line, !.bytes = 1]
    ELSE Pass1_mRegs(p, line, Op_reg(line_rr[1]), Op_reg(LStrip(line_rr[2])))

\* op_type 'm': register, register operand
Pass1_m(p, line) == Pass1_mSplit(p, line, SplitOn(line, ",", -1))

\* op_type 'v': the tests on the register and the byte.  bound tells whether
\* the local b was assigned: reading it unassigned raises UnboundLocalError,
\* which happens unless the register test comes out first
Pass1_vByte(p, line, ddd, bound, b) ==
    IF ddd = -1
    THEN [SetError(p, "*R*") EXCEPT !.b2 = "00", !.oper = line, !.bytes = 2]
    ELSE IF ~bound THEN Raise(p, "UnboundLocalError")
    ELSE IF b = "Error"
    THEN [p EXCEPT !.b1 = AddToOpcode(@, 8 * ddd), !.b2 = "??",
                   !.oper = line, !.bytes = 2]
    ELSE [p EXCEPT !.b1 = AddToOpcode(@, 8 * ddd), !.b2 = b,
                   !.oper = line, !.bytes = 2]

Pass1_vSplit(p, line, line_rd) ==
    IF Len(line_rd) > 1
    THEN Pass1_vByte(p, line, Op_reg(line_rd[1]), TRUE, Op_byte(LStrip(line_rd[2])))
    ELSE Pass1_vByte([SetError(p, "*V*") EXCEPT !.b2 = "00"], line,
                     Op_reg(line_rd[1]), FALSE, "")

\* op_type 'v': register, data byte operand
Pass1_v(p, line) == Pass1_vSplit(p, line, SplitOn(line, ",", -1))

\* op_type 'i'; n is int(i[1]), a decimal conversion of the second hex digit
Pass1_iDigit(p, line, n) ==
    IF ~n.ok THEN Raise(p, "ValueError")
    ELSE [p EXCEPT !.b1 = AddToOpcode(@, 8 * n.val), !.oper = line, !.bytes = 1]

\* op_type 'i'; i is Op_byte(line).  The error branch sets the code without
\* counting it
Pass1_iByte(p, line, i) ==
    IF i = "Error" \/ At(i, 0) # "0"
    THEN [p EXCEPT !.err = "*V*", !.oper = line, !.bytes = 1]
    ELSE Pass1_iDigit(p, line, PyInt(At(i, 1), 10))

\* op_type 'i': RST code operand
Pass1_i(p, line) == Pass1_iByte(p, line, Op_byte(line))

\* int(x / y) for ints x >= 0, y > 0: the float quotient truncated
TruncDiv(x, y) == x \div y

\* op_type 'e': lhs op rhs for two hex words
EquCompute(op, x, y) ==
    IF op = "+" THEN ZFill(Formatx(x + y), 4)
    ELSE IF op = "-" THEN ZFill(Formatx(x - y), 4)
    ELSE IF op = "*" THEN ZFill(Formatx(x * y), 4)
    ELSE IF y = 0 THEN "ZeroDivisionError"
    ELSE ZFill(Formatx(TruncDiv(x, y)), 4)

\* op_type 'e': p0 and p1 are Op_addr of the two sides.  The guard
\* "if p1 == 0" of the '/' branch compares the string p1 with the int 0 and
\* is never true.
EquSides(op, p0, p1) ==
    IF p0 = "Error" \/ p1 = "Error" THEN "Error"
    ELSE IF p0 = "Label" \/ p1 = "Label" THEN "Label"
    ELSE EquCompute(op, PyInt(p0, 16).val, PyInt(p1, 16).val)

EquOperands(op, operands) ==
    EquSides(op, Op_addr(operands[1]), Op_addr(operands[2]))

\* op_type 'e': the value of one operator of EQU: 'Error', 'Label', the
\* result as lower-case hex, or "ZeroDivisionError" for the exception
EquBinary(line, op) == EquOperands(op, SplitOn(line, op, 2))

\* op_type 'e': a is the value of the expression.  A value replaces the
\* last entry of the symbols by (self.label, value).
Pass1_eValue(p, line, a) ==
    IF a = "ZeroDivisionError" THEN Raise(p, "ZeroDivisionError")
    ELSE IF a = "Error"
    THEN [SetError(p, "*V*") EXCEPT !.oper = Upper(line)]
    ELSE IF a = "Label"
    THEN [p EXCEPT !.b1 = "??", !.b2 = "??", !.oper = Upper(line)]
    ELSE IF p.symbols = << >> THEN Raise(p, "IndexError")
    ELSE [p EXCEPT !.symbols = Append(SubSeq(@, 1, Len(@) - 1),
                                      <<p.label, IntV(PyInt(a, 16).val)>>),
                   !.oper = Upper(line), !.b1 = ""]

\* op_type 'e': EQU expression
Pass1_e(p, line) ==
    Pass1_eValue(p, line,
                 IF Find(line, "+") > 0 THEN EquBinary(line, "+")
                 ELSE IF Find(line, "-") > 0 THEN EquBinary(line, "-")
                 ELSE IF Find(line, "*") > 0 THEN EquBinary(line, "*")
                 ELSE IF Find(line, "/") > 0 THEN EquBinary(line, "/")
                 ELSE Op_addr(line))

\* Pass1: the duplicate label check; every earlier entry of the name sets
\* the code and counts one more error
RECURSIVE CheckDuplicate(_, _)
CheckDuplicate(p, c) ==
    IF c > Len(p.symbols) THEN p
    ELSE IF p.label = p.symbols[c][1]
    THEN CheckDuplicate(SetError(p, "*D*"), c + 1)
    ELSE CheckDuplicate(p, c + 1)

\* Pass1: the operand type is dispatched; p.b1 is the opcode
Pass1Operand(p, line, op_type) ==
    CASE op_type = "-" -> [p EXCEPT !.bytes = 1]
      [] op_type = "b" -> Pass1_b(p, line)
      [] op_type = "r" -> Pass1_r(p, line)
      [] op_type = "a" -> Pass1_a(p, line)
      [] op_type = "p" -> Pass1_p(p, line)
      [] op_type = "d" -> Pass1_d(p, line)
      [] op_type = "w" -> Pass1_w(p, line)
      [] op_type = "m" -> Pass1_m(p, line)
      [] op_type = "v" -> Pass1_v(p, line)
      [] op_type = "i" -> Pass1_i(p, line)
      [] op_type = "e" -> Pass1_e(p, line)

\* Pass1: the opcodes of the mnemonic; line holds the operands
Pass1Opcode(p, line, opcodes) ==
    IF opcodes = "Error" THEN SetError(p, "*O*")
    ELSE Pass1Operand([p EXCEPT !.b1 = Slice(opcodes, 0, 2)], line, At(opcodes, 2))

\* Pass1: mne is the first word in upper case; the rest are the operands
Pass1Lookup(p, line, mne) ==
    Pass1Opcode([p EXCEPT !.mne = mne],
                IF Len(line) > Len(mne) + 1
                THEN RStrip(LStrip(From(line, Len(mne) + 1))) ELSE "",
                opCode(mne))

\* Pass1: the mnemonic is looked up; line holds the mnemonic and its operands
Pass1Mnemonic(p, line) == Pass1Lookup(p, line, Upper(Split(line)[1]))

\* Pass1: the label is checked for a duplicate and saved with the program
\* counter; line is what follows it
Pass1Save(p, line) ==
    IF Len(line) = 0
    THEN [p EXCEPT !.symbols = Append(@, <<p.label, IntV(p.pc)>>)]
    ELSE Pass1Mnemonic([p EXCEPT !.symbols = Append(@, <<p.label, IntV(p.pc)>>)],
                       line)

\* Pass1: pos is the place of the ':' that ends a label (not above 6: the
\* label is cut to 6 characters)
Pass1Cut(p, line, pos) ==
    Pass1Save(CheckDuplicate([p EXCEPT !.label = Slice(line, 0, pos)], 1),
              LStrip(From(line, pos + 1)))

\* Pass1: pos is the place of the first ':', -1 when it follows a quote
Pass1Colon(p, line, pos) ==
    IF pos > 6 THEN Pass1Cut(p, Slice(line, 0, 6) \o From(line, pos), 6)
    ELSE IF pos > 0 THEN Pass1Cut(p, line, pos)
    ELSE Pass1Mnemonic(p, line)

\* Pass1: the label ending with ':'
Pass1Label(p, line) ==
    Pass1Colon(p, line,
               IF Find(line, ":") > 0 /\ Find(line, "'") > 0
                  /\ Find(line, ":") > Find(line, "'")
               THEN -1 ELSE Find(line, ":"))

\* Pass1: the comment beginning with ';' (pos) is split off
Pass1Comment(p, line, pos) ==
    IF Len(line) = 0 THEN p
    ELSE IF pos = 0 THEN [p EXCEPT !.comment = From(line, pos)]
    ELSE IF pos > 0
    THEN Pass1Label([p EXCEPT !.comment = From(line, pos)],
                    RStrip(Slice(line, 0, pos)))
    ELSE Pass1Label(p, line)

\* Pass1: the line without leading blanks and '\n'
Pass1Line0(p, line) == Pass1Comment(p, line, Find(line, ";"))

\* Parse.Pass1(line)
Pass1(self, text) ==
    Pass1Line0([self EXCEPT !.err = "", !.b1 = "", !.b2 = "", !.b3 = "",
                            !.long = "", !.label = "", !.mne = "", !.oper = "",
                            !.bytes = 0, !.comment = "", !.ln = @ + 1],
               Remove(LStrip(text), "\n"))

(***************************************************************************)
(* main: Pass 1 writes the provisional listing                             *)
(***************************************************************************)

\* the header line of both listings
Header == "ERR LINE  ADDR B1 B2 B3   *** ASM80 ASSEMBLER VER 1.0 ***\n"

\* the label, mnemonic, operands and comment of a row
Lmoc(p) ==
    IF p.label # "" \/ p.mne # ""
    THEN LJust(IF p.label # "" THEN p.label \o ":" ELSE "", 8)
         \o LJust(p.mne, 5) \o LJust(p.oper, 11) \o p.comment \o "\n"
    ELSE p.comment \o "\n"

\* format(pc, 'X').zfill(4)
Addr4(pc) == ZFill(FormatX(pc), 4)

\* a continuation row of a long data list: address and bytes only
ContinuationRow(pc, b1, b2, b3) ==
    RJust(Addr4(pc), 14) \o " " \o b1 \o " " \o b2 \o " " \o b3 \o "\n"

\* the rows after the first of a long data list: full rows of three bytes
\* while more than three are left, then the rest.  [rows, pc, a]
RECURSIVE LongRows(_, _, _, _)
LongRows(ll, pc, rows, a) ==
    IF Len(ll) > 6
    THEN LongRows(From(ll, 6), pc + 3,
                  Append(rows, ContinuationRow(pc, Slice(ll, 0, 2),
                                               Slice(ll, 2, 4), Slice(ll, 4, 6))),
                  a)
    ELSE LET b1 == IF Len(ll) >= 2 THEN Slice(ll, 0, 2) ELSE "  "
             b2 == IF Len(ll) >= 4 THEN Slice(ll, 2, 4) ELSE "  "
             b3 == IF Len(ll) = 6 THEN Slice(ll, 4, 6) ELSE "  "
             byte_count == IF Len(ll) = 6 THEN 3 ELSE IF Len(ll) >= 4 THEN 2 ELSE 1
         IN  IF b1 # "  "
             THEN [rows |-> Append(rows, ContinuationRow(pc, b1, b2, b3)),
                   pc |-> pc + byte_count, a |-> a]
             ELSE [rows |-> rows, pc |-> pc, a |-> a]

\* the body of the Pass 1 loop after parser.Pass1(line): the rows written to
\* the provisional listing, the program counter after them and the address
\* text left in a.  [rows, pc, a]
ListLine(p) ==
    IF p.long = ""
    THEN LET a == IF Len(p.b1) # 0 THEN Addr4(p.pc) ELSE "    "
         IN  [rows |-> << LJust(p.err, 4) \o RJust(Str(p.ln), 4) \o "  " \o a
                          \o " " \o LJust(p.b1, 3) \o LJust(p.b2, 3)
                          \o LJust(p.b3, 5) \o Lmoc(p) >>,
              pc |-> IF Len(p.b1) # 0 THEN p.pc + p.bytes ELSE p.pc,
              a |-> a]
    ELSE LET b1 == Slice(p.long, 0, 2)
             b2 == Slice(p.long, 2, 4)
             b3 == IF Len(p.long) >= 6 THEN Slice(p.long, 4, 6) ELSE "  "
             byte_count == IF Len(p.long) >= 6 THEN 3 ELSE 2
             first == LJust(p.err, 4) \o RJust(Str(p.ln), 4) \o "  " \o Addr4(p.pc)
                      \o " " \o LJust(b1, 3) \o LJust(b2, 3) \o LJust(b3, 5)
                      \o Lmoc(p)
             ll == IF Len(p.long) > 6 THEN From(p.long, 6) ELSE ""
         IN  LongRows(ll, p.pc + byte_count, <<first>>, Addr4(p.pc))

(***************************************************************************)
(* main: Pass 2 resolves the placeholders of one row                       *)
(*                                                                         *)
(* The names a and label_plus of the script are read in Pass 2 on paths    *)
(* that do not assign them first, so their values are part of the state.   *)
(* A Pass 2 step is the record [line, errors, symbols, a, label_plus, exc].*)
(***************************************************************************)

\* ln: the row without its comment; mne_lab: the words after the placeholder
MneLab(line, s) ==
    LET c == Find(line, ";")
        ln == IF c > 0 THEN RStrip(Slice(line, 0, c)) ELSE line
    IN  Split(LStrip(From(ln, s + 5)))

\* EQU: the symbol search of one side.  format(sym[1], 'x') is made for
\* every entry of the name (the last one stays) and raises ValueError for a
\* value that is no int
RECURSIVE EquSearch(_, _, _, _)
EquSearch(symbols, name, k, p) ==
    IF k > Len(symbols) THEN p
    ELSE IF symbols[k][1] # name THEN EquSearch(symbols, name, k + 1, p)
    ELSE IF symbols[k][2].kind # "int" THEN "ValueError"
    ELSE EquSearch(symbols, name, k + 1, ZFill(Formatx(symbols[k][2].num), 4))

\* EQU: one side; p is Op_addr of the word, and a label is searched
EquSideAddr(symbols, word, p) ==
    IF p = "Label" THEN EquSearch(symbols, word, 1, "Label") ELSE p

EquSide(symbols, word) == EquSideAddr(symbols, word, Op_addr(word))

\* parser.symbols.index((label, 0)): 0 when the tuple is not in the list
\* (ValueError).  The float 0.0 equals the int 0.
RECURSIVE IndexOfZero(_, _, _)
IndexOfZero(symbols, label, k) ==
    IF k > Len(symbols) THEN 0
    ELSE IF symbols[k][1] = label /\ symbols[k][2].kind \in {"int", "float"}
            /\ symbols[k][2].num = 0
    THEN k
    ELSE IndexOfZero(symbols, label, k + 1)

\* the error code is put in the first three columns of a row
MarkU(line) == "*U*" \o From(line, 3)

\* x + offset for a value x of the symbols
RECURSIVE AddrSearch(_, _, _, _, _)
AddrSearch(symbols, label, offset, k, add) ==
    IF k > Len(symbols) THEN add
    ELSE IF symbols[k][1] # label THEN AddrSearch(symbols, label, offset, k + 1, add)
    ELSE LET v == symbols[k][2]
         IN  IF v.kind = "str" THEN [exc |-> "TypeError", v |-> Unbound]
             ELSE AddrSearch(symbols, label, offset, k + 1,
                             [exc |-> "",
                              v |-> [v EXCEPT !.num = @ + offset * v.den]])

\* the last value of a name in the symbols, Unbound (the '' of the script)
\* when there is none
RECURSIVE ByteSearch(_, _, _, _)
ByteSearch(symbols, label, k, val) ==
    IF k > Len(symbols) THEN val
    ELSE IF symbols[k][1] = label
    THEN ByteSearch(symbols, label, k + 1, symbols[k][2])
    ELSE ByteSearch(symbols, label, k + 1, val)

\* the step of a row Pass 2 leaves as it is
Keep(line, st) ==
    [line |-> line, errors |-> st.errors, symbols |-> st.symbols, a |-> st.a,
     label_plus |-> st.label_plus, exc |-> ""]

\* the row with *U* and '-- --' for the placeholder at s, one more error
Undefined(line, s, st) ==
    [Keep(Slice(MarkU(line), 0, s) \o "-- --" \o From(MarkU(line), s + 5), st)
        EXCEPT !.errors = @ + 1]

\* EQU: the tuple (label, 0) is at index i of the symbols (0: nowhere, a
\* ValueError); it is replaced by (label, a) and the placeholder blanked
Pass2EquIndex(line, st, label, a, i) ==
    IF i = 0 THEN [Keep(line, st) EXCEPT !.a = a, !.exc = "ValueError"]
    ELSE IF a.kind = "unbound" THEN [Keep(line, st) EXCEPT !.exc = "NameError"]
    ELSE [Keep(Slice(line, 0, 8) \o Rep(" ", 15) \o From(line, 23), st)
             EXCEPT !.a = a, !.symbols = [@ EXCEPT ![i] = <<label, a>>]]

Pass2EquStore(line, st, label, a) ==
    Pass2EquIndex(line, st, label, a, IndexOfZero(st.symbols, label, 1))

\* EQU: x op y for the two resolved sides (int(p0, 16), int(p1, 16)).  A
\* word that is none of the four operators leaves a as it was; '/' is the
\* true division, and its guard "p1 != 0" compares a string with 0.
Pass2EquValue(line, mne_lab, st, op, x, y) ==
    IF op \in {"+", "-", "*", "/"} /\ (~x.ok \/ ~y.ok)
    THEN [Keep(line, st) EXCEPT !.exc = "ValueError"]
    ELSE IF op = "/" /\ y.val = 0
    THEN [Keep(line, st) EXCEPT !.exc = "ZeroDivisionError"]
    ELSE Pass2EquStore(line, st, DropLast(mne_lab[1], 1),
                       IF op = "+" THEN IntV(x.val + y.val)
                       ELSE IF op = "-" THEN IntV(x.val - y.val)
                       ELSE IF op = "*" THEN IntV(x.val * y.val)
                       ELSE IF op = "/" THEN FloatV(x.val, y.val)
                       ELSE st.a)

\* EQU: p0 and p1 are the two sides after the symbol search
Pass2EquSides(line, s, mne_lab, st, p0, p1) ==
    IF p0 = "ValueError" \/ p1 = "ValueError"
    THEN [Keep(line, st) EXCEPT !.exc = "ValueError"]
    ELSE IF p0 = "Label" \/ p1 = "Label" THEN Undefined(line, s, st)
    ELSE Pass2EquValue(line, mne_lab, st, mne_lab[4], PyInt(p0, 16), PyInt(p1, 16))

\* '?? ??' of an EQU row with five words: the expression is computed, the
\* symbol (label, 0) replaced and the placeholder blanked
Pass2Equ(line, s, mne_lab, st) ==
    Pass2EquSides(line, s, mne_lab, st,
                  EquSide(st.symbols, mne_lab[3]), EquSide(st.symbols, mne_lab[5]))

\* address: a is the address as four hex digits, written low byte first
Pass2Swap(line, s, st, a) ==
    [Keep(Slice(line, 0, s) \o Slice(a, 2, 4) \o " " \o Slice(a, 0, 2)
          \o From(line, s + 5), st)
        EXCEPT !.a = StrV(a)]

\* address: add is the value found for the label plus the offset
Pass2Found(line, s, st, add) ==
    IF add.exc # "" THEN [Keep(line, st) EXCEPT !.exc = add.exc]
    ELSE IF add.v.kind = "unbound" THEN Undefined(line, s, st)
    ELSE IF add.v.kind = "float" THEN [Keep(line, st) EXCEPT !.exc = "ValueError"]
    ELSE Pass2Swap(line, s, st, ZFill(FormatX(add.v.num), 4))

\* address: the symbol search
Pass2Search(line, s, st, label, offset) ==
    Pass2Found(line, s, st,
               AddrSearch(st.symbols, label, offset, 1, [exc |-> "", v |-> Unbound]))

\* address: n is int(label_minus[1]).  When it is no number the label is
\* rebuilt from label_plus, whatever that holds (NameError: nothing)
Pass2MinusInt(line, s, st, offset, label_minus, n) ==
    IF n.ok THEN Pass2Search(line, s, st, label_minus[1], 0 - n.val)
    ELSE IF st.label_plus = << >> THEN [Keep(line, st) EXCEPT !.exc = "NameError"]
    ELSE Pass2Search(line, s, st, st.label_plus[1] \o st.label_plus[2], offset)

Pass2MinusSplit(line, s, st, offset, label_minus) ==
    Pass2MinusInt(line, s, st, offset, label_minus, PyInt(label_minus[2], 10))

\* address: the - operator
Pass2Minus(line, s, st, label, offset) ==
    IF Find(label, "-") > 0
    THEN Pass2MinusSplit(line, s, st, offset, SplitOn(label, "-", 2))
    ELSE Pass2Search(line, s, st, label, offset)

\* address: n is int(label_plus[1]); when it is no number the two parts are
\* joined to one label
Pass2PlusInt(line, s, st, n) ==
    IF n.ok THEN Pass2Minus(line, s, st, st.label_plus[1], n.val)
    ELSE Pass2Minus(line, s, st, st.label_plus[1] \o st.label_plus[2], 0)

Pass2PlusSplit(line, s, st, label_plus) ==
    Pass2PlusInt(line, s, [st EXCEPT !.label_plus = label_plus],
                 PyInt(label_plus[2], 10))

\* address: the + operator
Pass2Plus(line, s, st, label) ==
    IF Find(label, "+") > 0
    THEN Pass2PlusSplit(line, s, st, SplitOn(label, "+", 2))
    ELSE Pass2Minus(line, s, st, label, 0)

\* '?? ??' of any other row: the last word is the target label, with an
\* optional +offset or -offset
Pass2Address(line, s, mne_lab, st) ==
    IF mne_lab = << >> THEN [Keep(line, st) EXCEPT !.exc = "IndexError"]
    ELSE Pass2Plus(line, s, st, mne_lab[Len(mne_lab)])

Pass2WordLab(line, s, mne_lab, st) ==
    IF Len(mne_lab) = 5 /\ \E k \in 1..5 : mne_lab[k] = "EQU"
    THEN Pass2Equ(line, s, mne_lab, st)
    ELSE Pass2Address(line, s, mne_lab, st)

Pass2WordAt(line, s, st) ==
    IF s <= 0 THEN Keep(line, st) ELSE Pass2WordLab(line, s, MneLab(line, s), st)

\* '?? ??': an unresolved address
Pass2Word(line, st) == Pass2WordAt(line, Find(line, "?? ??"), st)

\* byte: a is the value as four hex digits; HIGH in any word selects the
\* high byte
Pass2ByteHex(line, s, mne_lab, st, a) ==
    [Keep(Slice(line, 0, s)
          \o (IF \E k \in 1..Len(mne_lab) : Contains(mne_lab[k], "HIGH")
              THEN Slice(a, 0, 2) ELSE Slice(a, 2, 4))
          \o " " \o From(line, s + 3), st)
        EXCEPT !.a = StrV(a)]

\* byte: val is the value found for the label
Pass2ByteVal(line, s, mne_lab, st, val) ==
    IF val.kind = "unbound" \/ (val.kind = "str" /\ val.str = "")
    THEN [Keep(MarkU(line), st) EXCEPT !.errors = @ + 1]
    ELSE IF val.kind # "int" THEN [Keep(line, st) EXCEPT !.exc = "ValueError"]
    ELSE Pass2ByteHex(line, s, mne_lab, st, ZFill(FormatX(val.num), 4))

\* byte: the last word of the row is the target label
Pass2ByteLab(line, s, mne_lab, st) ==
    IF mne_lab = << >> THEN [Keep(line, st) EXCEPT !.exc = "IndexError"]
    ELSE Pass2ByteVal(line, s, mne_lab, st,
                      ByteSearch(st.symbols, mne_lab[Len(mne_lab)], 1, Unbound))

Pass2ByteAt(line, s, st) ==
    IF s <= 0 THEN Keep(line, st) ELSE Pass2ByteLab(line, s, MneLab(line, s), st)

\* '??': an unresolved byte value
Pass2Byte(line, st) == Pass2ByteAt(line, Find(line, "??"), st)

\* the second test works on the row the first one left
Pass2Second(r) == IF r.exc # "" THEN r ELSE Pass2Byte(r.line, r)

\* the body of the Pass 2 loop for one row of the provisional listing
Pass2(line, st) == Pass2Second(Pass2Word(line, st))

(***************************************************************************)
(* main: the symbols and the trailer of the final listing                  *)
(***************************************************************************)

\* s < t for two strings, as Python compares them
RECURSIVE StrLess(_, _)
StrLess(s, t) ==
    IF t = "" THEN FALSE
    ELSE IF s = "" THEN TRUE
    ELSE IF Head(s) # Head(t) THEN Ord(Head(s)) < Ord(Head(t))
    ELSE StrLess(Tail(s), Tail(t))

\* v < w for two values of the symbols that can be compared
ValueLess(v, w) ==
    IF v.kind = "str" THEN StrLess(v.str, w.str)
    ELSE v.num * w.den < w.num * v.den

\* (name, value) < (name, value) for two tuples
TupleLess(x, y) ==
    IF x[1] # y[1] THEN StrLess(x[1], y[1]) ELSE ValueLess(x[2], y[2])

\* two tuples of one name whose values are a str and a number: comparing
\* them raises TypeError
Incomparable(symbols) ==
    \E i, j \in 1..Len(symbols) :
        /\ symbols[i][1] = symbols[j][1]
        /\ symbols[i][2].kind = "str"
        /\ symbols[j][2].kind # "str"

RECURSIVE Insert(_, _)
Insert(sorted, x) ==
    IF sorted = << >> THEN <<x>>
    ELSE IF TupleLess(x, Head(sorted)) THEN <<x>> \o sorted
    ELSE <<Head(sorted)>> \o Insert(Tail(sorted), x)

\* parser.symbols.sort()
RECURSIVE Sort(_)
Sort(symbols) ==
    IF symbols = << >> THEN << >>
    ELSE Insert(Sort(SubSeq(symbols, 1, Len(symbols) - 1)), symbols[Len(symbols)])

Dashes == Rep("-", 76)

\* the symbols, five to a line; format(sym[1], 'X') raises ValueError for a
\* value that is no int.  text is all that was written, line the line being
\* built.  [text, exc]
RECURSIVE SymbolLines(_, _, _, _, _)
SymbolLines(symbols, k, line, pos, text) ==
    IF k > Len(symbols) THEN [text |-> text \o "\n" \o line, exc |-> ""]
    ELSE IF symbols[k][2].kind # "int" THEN [text |-> text, exc |-> "ValueError"]
    ELSE LET l == line \o RJust(symbols[k][1], 6) \o " "
                  \o ZFill(FormatX(symbols[k][2].num), 4) \o "    "
         IN  IF pos + 1 > 5
             THEN SymbolLines(symbols, k + 1, "", 1, text \o "\n" \o l)
             ELSE SymbolLines(symbols, k + 1, l, pos + 1, text)

\* the text of a file as the lines a reader gets (the last one may lack its
\* end of line)
RECURSIVE Lines(_)
Lines(text) ==
    LET n == Find(text, "\n")
    IN  IF text = "" THEN << >>
        ELSE IF n < 0 THEN <<text>>
        ELSE <<Slice(text, 0, n + 1)>> \o Lines(From(text, n + 1))

\* the dashes and the heading, written before the symbols are sorted
TrailerHead == "\n" \o Dashes \o "\nSymbols:"

\* the legend and the error count after the symbol lines (body)
TrailerBody(sorted, errors, body) ==
    IF body.exc # "" THEN [symbols |-> sorted, text |-> body.text, exc |-> body.exc]
    ELSE [symbols |-> sorted,
          text |-> body.text \o "\n" \o Dashes
              \o "\nError codes: *O*=undefined opcode, *V*=illegal value, *R*=illegal register,"
              \o "\n             *U*=undefined symbol, *D*=duplicate symbol"
              \o "\nTotal Errors = " \o Str(errors) \o "\n",
          exc |-> ""]

TrailerSorted(sorted, errors) ==
    TrailerBody(sorted, errors, SymbolLines(sorted, 1, "", 1, TrailerHead))

\* everything the script writes after the rows: [symbols, text, exc]
Trailer(symbols, errors) ==
    IF Incomparable(symbols)
    THEN [symbols |-> symbols, text |-> TrailerHead, exc |-> "TypeError"]
    ELSE TrailerSorted(Sort(symbols), errors)

(***************************************************************************)
(* main: the Intel HEX file                                                *)
(***************************************************************************)

\* the checksum the script computes for a record: the count term of the sum
\* is the constant 1 for every record length
Checksum(addr, data) ==
    LET sum_hex == FormatX(1 + PyInt(Slice(addr, 0, 2), 16).val
                             + PyInt(Slice(addr, 2, 4), 16).val + data)
    IN  ZFill(FormatX(255 - PyInt(Last(sum_hex, 2), 16).val + 1), 2)

\* the body of the HEX loop for one line of the final listing that is not the
\* end of the assembly: [write, record, exc]
HexLine(line) ==
    LET addr == Slice(line, 10, 14)
        b1 == Slice(line, 15, 17)
        b2 == Slice(line, 18, 20)
        b3 == Slice(line, 21, 23)
        hi == PyInt(Slice(addr, 0, 2), 16)
        lo == PyInt(Slice(addr, 2, 4), 16)
        v1 == PyInt(b1, 16)
        v2 == PyInt(b2, 16)
        v3 == PyInt(b3, 16)
        skip == [write |-> FALSE, record |-> "", exc |-> ""]
        fail == [write |-> FALSE, record |-> "", exc |-> "ValueError"]
    IN  IF Len(line) < 22 THEN skip
        ELSE IF ~PyInt(addr, 16).ok THEN skip
        ELSE IF ~hi.ok \/ ~lo.ok \/ ~v1.ok THEN fail
        ELSE IF b2 = "  "
        THEN [write |-> TRUE, exc |-> "",
              record |-> ":01" \o addr \o "00" \o b1 \o Checksum(addr, v1.val)]
        ELSE IF ~v2.ok THEN fail
        ELSE IF b3 = "  "
        THEN [write |-> TRUE, exc |-> "",
              record |-> ":02" \o addr \o "00" \o b1 \o b2
                         \o Checksum(addr, v1.val + v2.val)]
        ELSE IF ~v3.ok THEN fail
        ELSE [write |-> TRUE, exc |-> "",
              record |-> ":03" \o addr \o "00" \o b1 \o b2 \o b3
                         \o Checksum(addr, v1.val + v2.val + v3.val)]

(***************************************************************************)
(* The script as a state machine                                           *)
(***************************************************************************)

\* the number of source lines of a program
MaxLines == 3

VARIABLES
    phase,       \* where the script is: "pass1", "pass2", "hex", "done", "abort"
    parser,      \* the Parse object
    line,        \* the source line read last
    listing,     \* the rows of the provisional listing (.tmp)
    rows_read,   \* how many of them Pass 2 has read
    listing2,    \* the lines of the final listing (.lst)
    lines_read,  \* how many of them the HEX loop has read
    hex_open,    \* whether the HEX file was created
    hexfile,     \* the records of the HEX file
    a,           \* the script's name a
    label_plus,  \* the script's name label_plus (<< >>: not assigned)
    exception    \* the exception that ended the script ("" for none)

vars == <<phase, parser, line, listing, rows_read, listing2, lines_read,
          hex_open, hexfile, a, label_plus, exception>>

\* the files are open, the header is written, parser = Parse()
Init ==
    /\ phase = "pass1"
    /\ parser = NewParse
    /\ line = ""
    /\ listing = <<Header>>
    /\ rows_read = 0
    /\ listing2 = << >>
    /\ lines_read = 0
    /\ hex_open = FALSE
    /\ hexfile = << >>
    /\ a = Unbound
    /\ label_plus = << >>
    /\ exception = ""

\* the rows of the parsed line are written and the program counter advanced
Pass1Listed(p, ll) ==
    /\ parser' = [p EXCEPT !.pc = ll.pc]
    /\ listing' = listing \o ll.rows
    /\ a' = StrV(ll.a)
    /\ UNCHANGED <<phase, exception>>

\* p is the parser after parser.Pass1(line); an exception ends the script
Pass1Parsed(text, p) ==
    /\ line' = text
    /\ IF p.exc # ""
       THEN /\ parser' = p
            /\ phase' = "abort"
            /\ exception' = p.exc
            /\ UNCHANGED <<listing, a>>
       ELSE Pass1Listed(p, ListLine(p))

\* for line in source: one source line (any of `source`) is parsed and
\* listed
Pass1Line(source) ==
    /\ phase = "pass1"
    /\ parser.ln < MaxLines
    /\ \E text \in source : Pass1Parsed(text, Pass1(parser, text))
    /\ UNCHANGED <<rows_read, listing2, lines_read, hex_open, hexfile, label_plus>>

\* the source is read to its end: both files are closed, the provisional
\* listing is opened again
Pass1Close ==
    /\ phase = "pass1"
    /\ phase' = "pass2"
    /\ UNCHANGED <<parser, line, listing, rows_read, listing2, lines_read,
                   hex_open, hexfile, a, label_plus, exception>>

\* r is the row after Pass 2
Pass2Written(r) ==
    /\ rows_read' = rows_read + 1
    /\ parser' = [parser EXCEPT !.errors = r.errors, !.symbols = r.symbols]
    /\ a' = r.a
    /\ label_plus' = r.label_plus
    /\ IF r.exc # ""
       THEN /\ phase' = "abort"
            /\ exception' = r.exc
            /\ UNCHANGED listing2
       ELSE /\ listing2' = Append(listing2, r.line)
            /\ UNCHANGED <<phase, exception>>

\* for line in listing: one row is resolved and written to the final listing
Pass2Row ==
    /\ phase = "pass2"
    /\ rows_read < Len(listing)
    /\ Pass2Written(Pass2(listing[rows_read + 1],
                          [errors |-> parser.errors, symbols |-> parser.symbols,
                           a |-> a, label_plus |-> label_plus]))
    /\ UNCHANGED <<line, listing, lines_read, hex_open, hexfile>>

\* t is the trailer
TrailerWritten(t) ==
    /\ parser' = [parser EXCEPT !.symbols = t.symbols]
    /\ listing2' = listing2 \o Lines(t.text)
    /\ exception' = t.exc
    /\ phase' = IF t.exc # "" THEN "abort"
                ELSE IF parser.errors = 0 THEN "hex" ELSE "done"
    /\ hex_open' = (t.exc = "" /\ parser.errors = 0)

\* after the last row: the symbols are sorted and listed, the error count is
\* written, and with no error the HEX file is created
ListSymbols ==
    /\ phase = "pass2"
    /\ rows_read = Len(listing)
    /\ TrailerWritten(Trailer(parser.symbols, parser.errors))
    /\ UNCHANGED <<line, listing, rows_read, lines_read, hexfile, a, label_plus>>

\* the line of the final listing that ends the HEX loop: '---', or none left
EndOfAssembly ==
    \/ lines_read = Len(listing2)
    \/ Slice(listing2[lines_read + 1], 0, 3) = "---"

\* h is the outcome of the HEX loop body
HexWritten(h) ==
    /\ lines_read' = lines_read + 1
    /\ hexfile' = IF h.write THEN Append(hexfile, h.record) ELSE hexfile
    /\ exception' = h.exc
    /\ phase' = IF h.exc # "" THEN "abort" ELSE phase

\* for line in listing2: one line gives a data record or is skipped
HexRow ==
    /\ phase = "hex"
    /\ ~EndOfAssembly
    /\ HexWritten(HexLine(listing2[lines_read + 1]))
    /\ UNCHANGED <<parser, line, listing, rows_read, listing2, hex_open, a, label_plus>>

\* the end of file record
HexEnd ==
    /\ phase = "hex"
    /\ EndOfAssembly
    /\ hexfile' = Append(hexfile, ":00000001FF")
    /\ phase' = "done"
    /\ UNCHANGED <<parser, line, listing, rows_read, listing2, lines_read,
                   hex_open, a, label_plus, exception>>

\* the source lines the programs are made of
Source ==
    { " NOP", "L: NOP", " JMP L", " MVI C,0A1H", " MVI A,NOLBL",
      " RST 7", " RST 8", " RST 16",
      " DB 5", " DB 255", " DB 256", " DW 0FFFFH", " DW 10000H",
      "N: EQU 1-2", "X: EQU 5/0", " ORG L" }

Next ==
    \/ Pass1Line(Source)
    \/ Pass1Close
    \/ Pass2Row
    \/ ListSymbols
    \/ HexRow
    \/ HexEnd

Spec == Init /\ [][Next]_vars

\* the number of source lines of a program of one-line cases
MaxSingle == 1

\* Pass1Line for the programs of at most MaxSingle lines
Pass1Single(source) ==
    /\ parser.ln < MaxSingle
    /\ Pass1Line(source)

\* MOV dst,src for every pair of registers
Registers == {"B", "C", "D", "E", "H", "L", "M", "A"}

MovSource == {" MOV " \o dst \o "," \o src : dst \in Registers, src \in Registers}

NextMov ==
    \/ Pass1Single(MovSource)
    \/ Pass1Close
    \/ Pass2Row
    \/ ListSymbols
    \/ HexRow
    \/ HexEnd

SpecMov == Init /\ [][NextMov]_vars

\* source lines that move the program counter, and one-byte instructions
OrgSource == { " ORG 100H", " ORG 5", " DS 3", " DS 0AH", " HLT", " NOP" }

NextOrg ==
    \/ Pass1Line(OrgSource)
    \/ Pass1Close
    \/ Pass2Row
    \/ ListSymbols
    \/ HexRow
    \/ HexEnd

SpecOrg == Init /\ [][NextOrg]_vars

\* source lines with symbol references: labels as address and byte operands,
\* EQU expressions, lower-case names
RefSource ==
    { " NOP", "TBL: NOP", " LXI H,TBL", " ORG 1234H", "HIGH1: ADI TBL",
      "VAL: EQU 5+3", " MVI A,VAL", " mov a,b",
      "Y: EQU 5", "X: EQU Y + 1", " EQU 5" }

NextRef ==
    \/ Pass1Line(RefSource)
    \/ Pass1Close
    \/ Pass2Row
    \/ ListSymbols
    \/ HexRow
    \/ HexEnd

SpecRef == Init /\ [][NextRef]_vars

(***************************************************************************)
(* The fields of a listing row and of a HEX record                         *)
(***************************************************************************)

ErrorCodes == {"*O*", "*V*", "*R*", "*U*", "*D*"}

RowErr(row) == Slice(row, 0, 3)
RowB1(row) == Slice(row, 15, 17)
RowB2(row) == Slice(row, 18, 20)
RowB3(row) == Slice(row, 21, 23)
RowLabel(row) == DropLast(RStrip(Slice(row, 26, 34)), 1)
RowMne(row) == RStrip(Slice(row, 34, 39))
RowOper(row) == RStrip(Slice(row, 39, 50))

\* how many of the three byte fields of a row show something
BytesShown(row) ==
    Cardinality({k \in {15, 18, 21} : Slice(row, k, k + 2) \notin {"", " ", "  "}})

\* the bytes shown in rows[k], rows[k+1], ...
RECURSIVE BytesShownFrom(_, _)
BytesShownFrom(rows, k) ==
    IF k > Len(rows) THEN 0 ELSE BytesShown(rows[k]) + BytesShownFrom(rows, k + 1)

\* the sum of the bytes written as pairs of hex digits
RECURSIVE ByteSum(_)
ByteSum(s) ==
    IF Len(s) < 2 THEN 0 ELSE PyInt(Slice(s, 0, 2), 16).val + ByteSum(From(s, 2))

\* a decimal constant, or a hex constant ending in H
IsConst(t) ==
    \/ AllDigits(t, 10)
    \/ Len(t) > 1 /\ Last(t, 1) = "H" /\ AllDigits(DropLast(t, 1), 16)

ConstVal(t) ==
    IF Last(t, 1) = "H" THEN PyInt(DropLast(t, 1), 16).val ELSE PyInt(t, 10).val

Hex2(n) == ZFill(FormatX(n), 2)
Hex4(n) == ZFill(FormatX(n), 4)

\* the index of the first definition of a label in the symbol table (0: none)
FirstIndex(symbols, label) ==
    IF \E i \in 1..Len(symbols) : symbols[i][1] = label
    THEN CHOOSE i \in 1..Len(symbols) :
             /\ symbols[i][1] = label
             /\ \A j \in 1..(i - 1) : symbols[j][1] # label
    ELSE 0

\* Pass 2 is over: every row is read
Pass2Over == phase \in {"hex", "done"} \/ (phase = "pass2" /\ rows_read = Len(listing))

(***************************************************************************)
(* The claims                                                              *)
(***************************************************************************)

\* C1: if any row of the final listing carries an error code (*O*, *V*, *R*,
\* *U* or *D*) then no HEX file is created and no HEX record is written.
C1_ErrorsSuppressHex ==
    (\E i \in 1..Len(listing2) : RowErr(listing2[i]) \in ErrorCodes)
        => (~hex_open /\ hexfile = << >>)

\* C2: every HEX record ends in a two-digit checksum, and the sum of the byte
\* count, the address bytes, the record type, the data bytes and the
\* checksum is 0 modulo 256.
C2_ChecksumBalances ==
    \A i \in 1..Len(hexfile) :
        /\ Len(hexfile[i]) = 11 + 2 * PyInt(Slice(hexfile[i], 1, 3), 16).val
        /\ ByteSum(From(hexfile[i], 1)) % 256 = 0

\* C3: every source line Pass 1 lists, other than ORG, DS and EQU, advances
\* the program counter by exactly the number of bytes its rows show.
C3_PcAdvancesByBytesShown ==
    [][(/\ phase = "pass1"
        /\ phase' = "pass1"
        /\ parser'.ln = parser.ln + 1
        /\ parser'.mne \notin {"ORG", "DS", "EQU"})
          => parser'.pc = parser.pc + BytesShownFrom(listing', Len(listing) + 1)]_vars

\* C4: no row of the final listing shows the placeholder ?? in its byte
\* fields.
C4_NoPlaceholderInFinalListing ==
    \A i \in 1..Len(listing2) : ~Contains(Slice(listing2[i], 15, 23), "??")

\* C5: when Pass 2 is over every symbol has an integer value in 0..65535.
C5_SymbolValuesInRange ==
    Pass2Over =>
        \A i \in 1..Len(parser.symbols) :
            /\ parser.symbols[i][2].kind = "int"
            /\ parser.symbols[i][2].num \in 0..65535

\* C6: of two rows with the same label the second carries *D*, and a
\* three-byte row whose operand is a defined label shows the address of the
\* label's first definition (the symbols are still in definition order while
\* Pass 2 runs).
C6_FirstDefinitionWins ==
    phase = "pass2" =>
        /\ \A i, j \in 2..Len(listing2) :
               (i < j /\ RowLabel(listing2[i]) # ""
                      /\ RowLabel(listing2[i]) = RowLabel(listing2[j]))
                   => RowErr(listing2[j]) = "*D*"
        /\ \A j \in 2..Len(listing2) :
               (RowB3(listing2[j]) \notin {"", "  "}
                   /\ FirstIndex(parser.symbols, RowOper(listing2[j])) # 0)
                   => RowB2(listing2[j]) \o RowB3(listing2[j])
                        = Last(Hex4(parser.symbols[FirstIndex(parser.symbols,
                                        RowOper(listing2[j]))][2].num), 2)
                          \o Slice(Hex4(parser.symbols[FirstIndex(parser.symbols,
                                        RowOper(listing2[j]))][2].num), 0, 2)

\* C7: no source line ends the assembly with an exception.
C7_NeverAborts == phase # "abort" /\ exception = ""

\* C8: an EQU line that divides by 0 gets *V*, and nothing is raised.
C8_DivisionByZeroFlagged ==
    (Contains(line, " EQU ") /\ Last(Remove(line, " "), 2) = "/0")
        => (parser.exc = "" /\ parser.err = "*V*")

\* C9: RST n gives the one byte C7 + 8n with no error when n is a digit 0..7;
\* any other operand gives *V* and an opcode of at most two hex digits.
C9_RstOperandChecked ==
    (parser.mne = "RST" /\ parser.exc = "") =>
        IF parser.oper \in {"0", "1", "2", "3", "4", "5", "6", "7"}
        THEN parser.err = "" /\ parser.b1 = Hex2(199 + 8 * PyInt(parser.oper, 10).val)
        ELSE parser.err = "*V*" /\ Len(parser.b1) <= 2

\* C10: a DB row with a constant operand shows the byte and no error when
\* the constant is at most 255 and carries *V* otherwise; a DW row shows the
\* word, low byte first, when the constant is at most 65535 and carries *V*
\* otherwise.
C10_ConstantRangeChecked ==
    \A i \in 2..Len(listing2) :
        /\ (RowMne(listing2[i]) = "DB" /\ IsConst(RowOper(listing2[i]))) =>
               IF ConstVal(RowOper(listing2[i])) <= 255
               THEN /\ RowErr(listing2[i]) = "   "
                    /\ RowB1(listing2[i]) = Hex2(ConstVal(RowOper(listing2[i])))
               ELSE RowErr(listing2[i]) = "*V*"
        /\ (RowMne(listing2[i]) = "DW" /\ IsConst(RowOper(listing2[i]))) =>
               IF ConstVal(RowOper(listing2[i])) <= 65535
               THEN /\ RowErr(listing2[i]) = "   "
                    /\ RowB1(listing2[i]) \o RowB2(listing2[i])
                         = Last(Hex4(ConstVal(RowOper(listing2[i]))), 2)
                           \o Slice(Hex4(ConstVal(RowOper(listing2[i]))), 0, 2)
               ELSE RowErr(listing2[i]) = "*V*"

\* the operand after its last comma, and the label and offset of label+n,
\* label-n
AfterComma(t) ==
    IF Find(t, ",") >= 0 THEN LStrip(From(t, Find(t, ",") + 1)) ELSE t

TargetName(t) ==
    IF Find(t, "+") > 0 THEN Slice(t, 0, Find(t, "+"))
    ELSE IF Find(t, "-") > 0 THEN Slice(t, 0, Find(t, "-"))
    ELSE t

TargetOffset(t) ==
    IF Find(t, "+") > 0 THEN PyInt(From(t, Find(t, "+") + 1), 10).val
    ELSE IF Find(t, "-") > 0 THEN 0 - PyInt(From(t, Find(t, "-") + 1), 10).val
    ELSE 0

\* the value of the first definition of a label
ValueOf(symbols, label) == symbols[FirstIndex(symbols, label)][2].num

\* C11: a three-byte row whose 16-bit operand is a label shows the low byte
\* then the high byte of the label's value plus the offset when the label is
\* defined, before or after the row, and *U* with -- -- when it is defined
\* nowhere.
C11_AddressLabelResolved ==
    phase = "pass2" =>
        \A j \in 2..Len(listing2) :
            (RowB3(listing2[j]) \notin {"", "  "}
                /\ IsAlpha(At(AfterComma(RowOper(listing2[j])), 0)))
              => IF FirstIndex(parser.symbols,
                               TargetName(AfterComma(RowOper(listing2[j])))) # 0
                 THEN RowB2(listing2[j]) \o RowB3(listing2[j])
                        = Last(Hex4(ValueOf(parser.symbols,
                                        TargetName(AfterComma(RowOper(listing2[j]))))
                                    + TargetOffset(AfterComma(RowOper(listing2[j])))), 2)
                          \o Slice(Hex4(ValueOf(parser.symbols,
                                        TargetName(AfterComma(RowOper(listing2[j]))))
                                    + TargetOffset(AfterComma(RowOper(listing2[j])))), 0, 2)
                 ELSE /\ RowErr(listing2[j]) = "*U*"
                      /\ Slice(listing2[j], 18, 23) = "-- --"

\* the adder of a register B, C, D, E, H, L, M, A written in upper case
RegIndex(t) == IndexIn("BCDEHLMA", t, 1) - 1

\* the last word of an operand field, "" when it is empty
LastWord(t) == IF Split(t) = << >> THEN "" ELSE Split(t)[Len(Split(t))]

\* a label with exactly one definition
DefinedOnce(symbols, label) ==
    Cardinality({i \in 1..Len(symbols) : symbols[i][1] = label}) = 1

\* C12: an MVI row whose byte operand is a label defined (once) by an EQU on
\* an earlier row shows the opcode 06 + 8*ddd, then the low byte of the
\* label's value, and no error code.
C12_ImmediateLabelResolved ==
    phase = "pass2" =>
        \A j \in 2..Len(listing2) :
            (RowMne(listing2[j]) = "MVI"
                /\ \E i \in 2..(j - 1) :
                       /\ RowLabel(listing2[i]) = AfterComma(RowOper(listing2[j]))
                       /\ RowMne(listing2[i]) = "EQU"
                /\ DefinedOnce(parser.symbols, AfterComma(RowOper(listing2[j]))))
              => /\ RowErr(listing2[j]) = "   "
                 /\ RowB1(listing2[j])
                      = Hex2(6 + 8 * RegIndex(Slice(RowOper(listing2[j]), 0, 1)))
                 /\ RowB2(listing2[j])
                      = Last(Hex4(ValueOf(parser.symbols,
                                          AfterComma(RowOper(listing2[j])))), 2)

\* C13: a two-byte instruction row whose operand ends in a label that is
\* defined (once, with a 16-bit value) shows the high byte of the value when
\* the operand contains HIGH and the low byte otherwise.
C13_HighLowByte ==
    phase = "pass2" =>
        \A j \in 2..Len(listing2) :
            (/\ RowB2(listing2[j]) \notin {"", "  "}
             /\ RowB3(listing2[j]) \in {"", "  "}
             /\ RowMne(listing2[j]) \notin {"EQU", "DW", "DB"}
             /\ DefinedOnce(parser.symbols, LastWord(RowOper(listing2[j])))
             /\ ValueOf(parser.symbols, LastWord(RowOper(listing2[j]))) \in 0..65535)
              => RowB2(listing2[j])
                   = IF Contains(RowOper(listing2[j]), "HIGH")
                     THEN Slice(Hex4(ValueOf(parser.symbols,
                                             LastWord(RowOper(listing2[j])))), 0, 2)
                     ELSE Last(Hex4(ValueOf(parser.symbols,
                                            LastWord(RowOper(listing2[j])))), 2)

\* C14: every MOV dst,src row of the final listing, for dst and src among B,
\* C, D, E, H, L, M, A, shows the one byte 40h + 8*ddd + sss and no error,
\* and dividing the byte less 40h by 8 gives back ddd and sss; the row of
\* MOV M,M carries *R*.
C14_MovEncoding ==
    \A j \in 2..Len(listing2) :
        RowMne(listing2[j]) = "MOV" =>
            IF RowOper(listing2[j]) = "M,M"
            THEN RowErr(listing2[j]) = "*R*"
            ELSE /\ RowErr(listing2[j]) = "   "
                 /\ RowB1(listing2[j])
                      = Hex2(64 + 8 * RegIndex(Slice(RowOper(listing2[j]), 0, 1))
                                + RegIndex(Slice(RowOper(listing2[j]), 2, 3)))
                 /\ Slice(listing2[j], 17, 26) = "         "
                 /\ (PyInt(RowB1(listing2[j]), 16).val - 64) \div 8
                      = RegIndex(Slice(RowOper(listing2[j]), 0, 1))
                 /\ (PyInt(RowB1(listing2[j]), 16).val - 64) % 8
                      = RegIndex(Slice(RowOper(listing2[j]), 2, 3))

\* C14: the assembly of MOV H,L is done, with the byte 65 in the listing and
\* in the HEX file
C14_MovAssembled ==
    /\ phase = "done"
    /\ \E j \in 2..Len(listing2) :
           RowMne(listing2[j]) = "MOV" /\ RowOper(listing2[j]) = "H,L"
               /\ RowB1(listing2[j]) = "65"
    /\ Len(hexfile) = 2

\* the row Pass 1 has just written for a line of one row
NewRow == listing'[Len(listing')]

\* C15: in Pass 1, ORG n sets the program counter to n and DS n adds n to it,
\* and their rows show no address and no byte; the row of any other line
\* shows the program counter it was reached with as its address, and the
\* counter then moves on by the bytes shown.  In the HEX loop the row of an
\* ORG or a DS adds no record.
C15_OrgDsMoveThePc ==
    [][/\ (phase = "pass1" /\ parser'.ln = parser.ln + 1) =>
            /\ Len(listing') = Len(listing) + 1
            /\ IF parser'.mne \in {"ORG", "DS"}
               THEN /\ IsConst(Upper(parser'.oper))
                    /\ parser'.pc = IF parser'.mne = "ORG"
                                    THEN ConstVal(Upper(parser'.oper))
                                    ELSE parser.pc + ConstVal(Upper(parser'.oper))
                    /\ Slice(NewRow, 10, 26) = "                "
               ELSE /\ Slice(NewRow, 10, 14) = Hex4(parser.pc)
                    /\ BytesShown(NewRow) > 0
                    /\ parser'.pc = parser.pc + BytesShown(NewRow)
       /\ (phase = "hex" /\ lines_read' = lines_read + 1
             /\ RowMne(listing2[lines_read']) \in {"ORG", "DS"})
            => hexfile' = hexfile]_vars

\* C15: ORG 100H, DS 3, HLT is assembled: 76 stands at 0103 in the listing
\* and the HEX file holds that one byte
C15_HltAt0103 ==
    /\ phase = "done"
    /\ Len(listing2) > 4
    /\ RowMne(listing2[2]) = "ORG" /\ RowOper(listing2[2]) = "100H"
    /\ RowMne(listing2[3]) = "DS" /\ RowOper(listing2[3]) = "3"
    /\ Slice(listing2[4], 10, 17) = "0103 76"
    /\ hexfile = <<":010103007685", ":00000001FF">>

\* a row with a hex address in its address field
HasAddress(row) == AllDigits(Slice(row, 10, 14), 16)

\* the rows with an address among rows[k], rows[k+1], ... up to the dashes
RECURSIVE AddressRows(_, _)
AddressRows(rows, k) ==
    IF k > Len(rows) \/ Slice(rows[k], 0, 3) = "---" THEN 0
    ELSE (IF HasAddress(rows[k]) THEN 1 ELSE 0) + AddressRows(rows, k + 1)

\* what the byte fields of those rows show, one row after the other
RECURSIVE ListedBytes(_, _)
ListedBytes(rows, k) ==
    IF k > Len(rows) \/ Slice(rows[k], 0, 3) = "---" THEN ""
    ELSE (IF HasAddress(rows[k]) THEN Remove(Slice(rows[k], 15, 23), " ") ELSE "")
         \o ListedBytes(rows, k + 1)

\* the data of the data records records[k], records[k+1], ...
RECURSIVE Payloads(_, _)
Payloads(records, k) ==
    IF k > Len(records) THEN ""
    ELSE (IF Slice(records[k], 7, 9) = "00"
          THEN Slice(records[k], 9, 9 + 2 * PyInt(Slice(records[k], 1, 3), 16).val)
          ELSE "")
         \o Payloads(records, k + 1)

\* C16: when the HEX file is complete it holds one data record for every
\* row of the final listing that has an address, then :00000001FF, and the
\* data of the records, one after the other, is what the byte fields of
\* those rows show.
C16_HexMatchesListing ==
    (phase = "done" /\ hex_open) =>
        /\ Len(hexfile) = AddressRows(listing2, 1) + 1
        /\ hexfile[Len(hexfile)] = ":00000001FF"
        /\ Payloads(hexfile, 1) = ListedBytes(listing2, 1)

\* C17: in Pass 1 a source line without a label gives the same bytes and the
\* same error code as the line written in upper case.
C17_CaseInsensitive ==
    [][(phase = "pass1" /\ parser'.ln = parser.ln + 1 /\ ~Contains(line', ":"))
          => /\ parser'.err = Pass1(parser, Upper(line')).err
             /\ parser'.b1 = Pass1(parser, Upper(line')).b1
             /\ parser'.b2 = Pass1(parser, Upper(line')).b2
             /\ parser'.b3 = Pass1(parser, Upper(line')).b3
             /\ parser'.long = Pass1(parser, Upper(line')).long]_vars

\* an EQU row whose expression is label+n or label-n, with or without blanks,
\* where the label and the row's own label are each defined once
EquOfLabel(symbols, row) ==
    /\ RowMne(row) = "EQU"
    /\ IsAlpha(At(RowOper(row), 0))
    /\ TargetName(Remove(RowOper(row), " ")) # Remove(RowOper(row), " ")
    /\ DefinedOnce(symbols, TargetName(Remove(RowOper(row), " ")))
    /\ DefinedOnce(symbols, RowLabel(row))

\* C18: Pass 2 is not ended by an EQU row, and when it is over every EQU row
\* whose expression is a defined label plus or minus a number shows neither
\* address nor bytes, and the row's label has the value of that expression.
C18_EquResolvedInPass2 ==
    /\ (phase = "abort" /\ rows_read > 0) => RowMne(listing[rows_read]) # "EQU"
    /\ Pass2Over =>
           \A j \in 2..Len(listing) :
               EquOfLabel(parser.symbols, listing2[j]) =>
                   /\ Slice(listing2[j], 10, 23) = "             "
                   /\ ValueOf(parser.symbols, RowLabel(listing2[j]))
                        = ValueOf(parser.symbols,
                                  TargetName(Remove(RowOper(listing2[j]), " ")))
                          + TargetOffset(Remove(RowOper(listing2[j]), " "))

\* C19: a line of Pass 1 leaves every entry the symbol table already had in
\* its place and unchanged.
C19_SymbolsOnlyGrow ==
    [][(phase = "pass1" /\ parser'.ln = parser.ln + 1)
          => /\ Len(parser'.symbols) >= Len(parser.symbols)
             /\ SubSeq(parser'.symbols, 1, Len(parser.symbols)) = parser.symbols]_vars
====
